---- MODULE Spec2Model ----
(***************************************************************************)
(* Model of the batch transcription dispatcher                             *)
(* (qusai_whisper_experiment/batch_transcribe.py) and of the per-file      *)
(* operation it calls (advanced_transcribe.py transcribe_audio_advanced).  *)
(*                                                                         *)
(* Strings are sequences of one-character strings.  A path returned by     *)
(* glob is os.path.join(input_dir, name); the model keeps only `name`,     *)
(* because every path of one run shares the prefix input_dir + "/", which  *)
(* changes neither equality nor the order of sorted().  The empty name is  *)
(* the path "input_dir/" (the directory itself).                           *)
(***************************************************************************)
EXTENDS Integers, Sequences, FiniteSets, Bags, TLC

\* ---------------------------------------------------------------- bounds
MaxNameLen == 2
MaxPatLen == 3
MaxDirSize == 2
MaxWorkers == 3

\* ------------------------------------------------------------ characters
NameChars == {"a", "b", "."}
PatChars == NameChars \cup {"*", ",", " "}

\* Code points, the order Python's str comparison (and so sorted()) uses.
Ord(c) ==
  CASE c = " " -> 32
    [] c = "*" -> 42
    [] c = "," -> 44
    [] c = "." -> 46
    [] c = "a" -> 97
    [] c = "b" -> 98

SeqsUpTo(S, n) == UNION {[1..k -> S] : k \in 0..n}

\* Names a directory entry can have: non-empty, and never "." or "..",
\* which os.scandir does not list.
DotNames == {<<".">>, <<".", ".">>}
AllNames == SeqsUpTo(NameChars, MaxNameLen) \ ({<<>>} \cup DotNames)

\* ------------------------------------------------------- str operations
\* str.__lt__ / __le__ : lexicographic by code point, a proper prefix first.
RECURSIVE StrLessEq(_, _)
StrLessEq(s, t) ==
  IF s = <<>> THEN TRUE
  ELSE IF t = <<>> THEN FALSE
  ELSE IF Head(s) = Head(t) THEN StrLessEq(Tail(s), Tail(t))
  ELSE Ord(Head(s)) < Ord(Head(t))

\* pattern.split(',')
RECURSIVE SplitAcc(_, _)
SplitAcc(s, cur) ==
  IF s = <<>> THEN <<cur>>
  ELSE IF Head(s) = "," THEN <<cur>> \o SplitAcc(Tail(s), <<>>)
  ELSE SplitAcc(Tail(s), Append(cur, Head(s)))

split(s) == SplitAcc(s, <<>>)

\* p.strip()
RECURSIVE lstrip(_)
lstrip(s) == IF s # <<>> /\ Head(s) = " " THEN lstrip(Tail(s)) ELSE s

RECURSIVE rstrip(_)
rstrip(s) ==
  IF s # <<>> /\ s[Len(s)] = " " THEN rstrip(SubSeq(s, 1, Len(s) - 1)) ELSE s

strip(s) == rstrip(lstrip(s))

\* ------------------------------------------------------------ glob.glob
\* glob.has_magic, for the magic characters of the modelled alphabet.
has_magic(p) == \E i \in 1..Len(p) : p[i] = "*"

\* fnmatch.fnmatchcase: "*" matches any run of characters, anything else
\* matches itself.
RECURSIVE fnmatch(_, _)
fnmatch(name, p) ==
  IF p = <<>> THEN name = <<>>
  ELSE IF Head(p) = "*"
    THEN fnmatch(name, Tail(p)) \/ (name # <<>> /\ fnmatch(Tail(name), p))
  ELSE name # <<>> /\ Head(name) = Head(p) /\ fnmatch(Tail(name), Tail(p))

\* glob._ishidden
ishidden(s) == s # <<>> /\ Head(s) = "."

\* The names glob.glob(os.path.join(input_dir, p)) yields:
\*  - no magic, empty basename: the path "input_dir/" when it is a directory;
\*  - no magic, otherwise: the path when os.path.lexists() holds, which is
\*    the case for a listed entry and for "." and "..";
\*  - magic: the listed names that fnmatch the pattern, hidden names only
\*    for a pattern that itself starts with a dot.
globNames(isdir, entries, p) ==
  IF ~isdir THEN {}
  ELSE IF ~has_magic(p)
    THEN IF p = <<>> THEN {<<>>}
         ELSE IF p \in entries \cup DotNames THEN {p} ELSE {}
  ELSE {n \in entries : fnmatch(n, p) /\ (ishidden(n) => ishidden(p))}

\* A list of the names of a set.  os.scandir's order is arbitrary; the only
\* consumer sorts the concatenation, so the order chosen here is not seen.
RECURSIVE SetToSeq(_)
SetToSeq(S) ==
  IF S = {} THEN <<>>
  ELSE LET x == CHOOSE y \in S : TRUE IN <<x>> \o SetToSeq(S \ {x})

glob(isdir, entries, p) == SetToSeq(globNames(isdir, entries, p))

\* sorted(): a stable insertion sort under str comparison.
RECURSIVE InsertSorted(_, _)
InsertSorted(x, s) ==
  IF s = <<>> THEN <<x>>
  ELSE IF StrLessEq(x, Head(s)) THEN <<x>> \o s
  ELSE <<Head(s)>> \o InsertSorted(x, Tail(s))

RECURSIVE sorted(_)
sorted(s) == IF s = <<>> THEN <<>> ELSE InsertSorted(Head(s), sorted(Tail(s)))

\* The loop of find_audio_files: audio_files.extend(glob(...)) per pattern.
RECURSIVE ExtendAll(_, _, _)
ExtendAll(isdir, entries, pats) ==
  IF pats = <<>> THEN <<>>
  ELSE glob(isdir, entries, strip(Head(pats)))
         \o ExtendAll(isdir, entries, Tail(pats))

find_audio_files(isdir, entries, pat) ==
  sorted(ExtendAll(isdir, entries, split(pat)))

\* ------------------------------------------- the Transcription Operation
\* What can go wrong while one file is processed.
Faults == {"none", "missing", "load", "decode", "write"}

\* The result of a call: it returns a value or raises an exception.
NoExc == [cls |-> "none", msg |-> ""]
Return(v) == [kind |-> "return", value |-> v, exc |-> NoExc]
Raise(e) == [kind |-> "raise", value |-> <<>>, exc |-> e]
NoResult == [kind |-> "none", value |-> <<>>, exc |-> NoExc]

\* `except Exception` catches every exception class except those deriving
\* from BaseException only; SystemExit is one of these.
IsException(cls) == cls \notin {"SystemExit", "KeyboardInterrupt", "GeneratorExit"}

\* sys.exit(1)
sys_exit == Raise([cls |-> "SystemExit", msg |-> "1"])

\* The library calls of the operation that can raise.
load_model(fault) ==
  IF fault = "load" THEN Raise([cls |-> "RuntimeError", msg |-> "load failed"])
  ELSE Return(<<>>)

model_transcribe(fault) ==
  IF fault = "decode" THEN Raise([cls |-> "RuntimeError", msg |-> "decode failed"])
  ELSE Return(<<>>)

write_artifacts(fault) ==
  IF fault = "write" THEN Raise([cls |-> "OSError", msg |-> "write failed"])
  ELSE Return(<<>>)

\* transcribe_audio_advanced: sys.exit(1) for a missing file, for a model
\* that fails to load and for a failed decode (both behind `except
\* Exception`); an error while the artifacts are written propagates.
transcribe_audio_advanced(fault) ==
  IF fault = "missing" THEN sys_exit
  ELSE LET m == load_model(fault) IN
    IF m.kind = "raise" /\ IsException(m.exc.cls) THEN sys_exit
    ELSE IF m.kind = "raise" THEN m
    ELSE LET r == model_transcribe(fault) IN
      IF r.kind = "raise" /\ IsException(r.exc.cls) THEN sys_exit
      ELSE IF r.kind = "raise" THEN r
      ELSE LET w == write_artifacts(fault) IN
        IF w.kind = "raise" THEN w ELSE Return(<<>>)

\* transcribe_worker: (file_path, True, "Success") on return,
\* (file_path, False, str(e)) for what `except Exception` catches; anything
\* else leaves the function as the exception it is.
transcribe_worker(file_path, fault) ==
  LET r == transcribe_audio_advanced(fault) IN
    IF r.kind = "return" THEN Return(<<file_path, TRUE, "Success">>)
    ELSE IF IsException(r.exc.cls) THEN Return(<<file_path, FALSE, r.exc.msg>>)
    ELSE r

\* ------------------------------------------------------------- the state
VARIABLES
  dirExists,    \* input_dir is an existing directory
  listing,      \* the names of its entries
  pattern,      \* args.pattern
  workers,      \* args.workers
  faultOf,      \* the fault the operation meets on each path (the operation
                \* is deterministic: a function of the path)
  pc,           \* position of main()
  audio_files,  \* the discovered paths
  outdir,       \* os.makedirs(output_dir) has run
  poolSize,     \* max_workers of the ProcessPoolExecutor, 0 while there is none
  submitted,    \* number of executor.submit calls made
  idx,          \* position of the sequential for loop
  item,         \* per work item: Pending, Running, Succeeded, Failed
  invoked,      \* per work item: calls of the operation
  fut,          \* per work item: what its future holds
  collected,    \* the futures as_completed has yielded
  results,      \* the results list
  summary,      \* what the summary prints
  exitStatus,   \* exit status of the process, -1 while it runs
  text,         \* the text given to normalize_arabic_text
  once,         \* normalize_arabic_text(text)
  twice,        \* normalize_arabic_text(once)
  npc           \* which of the two calls have been made

vars == <<dirExists, listing, pattern, workers, faultOf, pc, audio_files,
          outdir, poolSize, submitted, idx, item, invoked, fut, collected,
          results, summary, exitStatus,
          text, once, twice, npc>>

inputs == <<dirExists, listing, pattern, workers, faultOf>>
norm == <<text, once, twice, npc>>
batch == <<pc, audio_files, outdir, poolSize, submitted, idx, item, invoked,
           fut, collected, results, summary, exitStatus>>

N == Len(audio_files)
Terminal == {"Succeeded", "Failed"}
\* The fault met on work item i.  A path that is no directory entry (the
\* directory itself, "." or "..") cannot be decoded as audio.
FaultAt(i) ==
  IF audio_files[i] \in DOMAIN faultOf THEN faultOf[audio_files[i]] ELSE "decode"

NoSummary == [printed |-> FALSE, total |-> 0, successful |-> 0, failed |-> <<>>]

\* Command lines and directories of the batch runs explored.
BatchNames == {<<"a">>, <<"b">>, <<"a", "b">>}
CliPatterns == {<<"*">>, <<"*", ",", "a">>, <<"b">>}

InitRest ==
  /\ pc = "start"
  /\ audio_files = <<>>
  /\ outdir = FALSE
  /\ poolSize = 0
  /\ submitted = 0
  /\ idx = 1
  /\ item = <<>>
  /\ invoked = <<>>
  /\ fut = <<>>
  /\ collected = {}
  /\ results = <<>>
  /\ summary = NoSummary
  /\ exitStatus = -1

\* No text is being normalized.
NormIdle ==
  /\ text = <<>>
  /\ once = <<>>
  /\ twice = <<>>
  /\ npc = "idle"

Init ==
  /\ NormIdle
  /\ dirExists = TRUE
  /\ listing \in SUBSET BatchNames
  /\ pattern \in CliPatterns
  /\ workers \in (-1)..MaxWorkers
  /\ faultOf \in [listing -> Faults]
  /\ InitRest

\* Discovery alone, over every directory and every pattern string.
InitFind ==
  /\ NormIdle
  /\ dirExists \in BOOLEAN
  /\ listing \in {d \in SUBSET AllNames : Cardinality(d) <= MaxDirSize}
  /\ dirExists = FALSE => listing = {}
  /\ pattern \in SeqsUpTo(PatChars, MaxPatLen)
  /\ workers = 1
  /\ faultOf = [n \in listing |-> "none"]
  /\ InitRest

\* ------------------------------------------------------------- main()
\* A slip of main(): the `if not audio_files` exit is missing.
DiscoverWithoutExit ==
  /\ pc = "start"
  /\ LET fs == find_audio_files(dirExists, listing, pattern) IN
       /\ audio_files' = fs
       /\ item' = [i \in 1..Len(fs) |-> "Pending"]
       /\ invoked' = [i \in 1..Len(fs) |-> 0]
       /\ fut' = [i \in 1..Len(fs) |-> NoResult]
       /\ pc' = "mkdir"
  /\ UNCHANGED <<norm, inputs, outdir, poolSize, submitted, idx, collected, results,
                 summary, exitStatus>>

\* Lines 131-137: discovery, and sys.exit(1) when nothing was found.
Discover ==
  /\ pc = "start"
  /\ LET fs == find_audio_files(dirExists, listing, pattern) IN
       /\ audio_files' = fs
       /\ item' = [i \in 1..Len(fs) |-> "Pending"]
       /\ invoked' = [i \in 1..Len(fs) |-> 0]
       /\ fut' = [i \in 1..Len(fs) |-> NoResult]
       /\ IF fs = <<>>
            THEN pc' = "exited" /\ exitStatus' = 1
            ELSE pc' = "mkdir" /\ exitStatus' = exitStatus
  /\ UNCHANGED <<norm, inputs, outdir, poolSize, submitted, idx, collected, results,
                 summary>>

\* A slip of line 147: `if args.workers <= 1`.
MakeOutputDirLenient ==
  /\ pc = "mkdir"
  /\ outdir' = TRUE
  /\ pc' = IF workers <= 1 THEN "seq" ELSE "pool"
  /\ UNCHANGED <<norm, inputs, audio_files, poolSize, submitted, idx, item, invoked,
                 fut, collected, results, summary, exitStatus>>

\* Lines 140-147: os.makedirs(output_dir), then the choice of the mode.
MakeOutputDir ==
  /\ pc = "mkdir"
  /\ outdir' = TRUE
  /\ pc' = IF workers = 1 THEN "seq" ELSE "pool"
  /\ UNCHANGED <<norm, inputs, audio_files, poolSize, submitted, idx, item, invoked,
                 fut, collected, results, summary, exitStatus>>

\* A slip of results.append(result): the result is put in front.
CollectedInFront(rs, r) == <<r>> \o rs

\* results.append(result)
Collected(rs, r) == Append(rs, r)

\* A slip: a failed work item is put back to be tried again.
EndStateRetry(r) ==
  IF r.kind = "return" /\ r.value[2] THEN "Succeeded" ELSE "Pending"

\* The state a work item ends in.
EndState(r) ==
  IF r.kind = "return" /\ r.value[2] THEN "Succeeded" ELSE "Failed"

\* Lines 149-160: the sequential loop calls transcribe_worker on the next file.
SeqStart ==
  /\ pc = "seq"
  /\ idx <= N
  /\ item[idx] = "Pending"
  /\ item' = [item EXCEPT ![idx] = "Running"]
  /\ invoked' = [invoked EXCEPT ![idx] = @ + 1]
  /\ UNCHANGED <<norm, inputs, pc, audio_files, outdir, poolSize, submitted, idx,
                 fut, collected, results, summary, exitStatus>>

\* Lines 160-161: the call ends.  A returned tuple is appended and the loop
\* goes on (to the summary after the last file); an exception that
\* transcribe_worker let through leaves main() and ends the process.
SeqFinish ==
  /\ pc = "seq"
  /\ idx <= N
  /\ item[idx] = "Running"
  /\ LET r == transcribe_worker(audio_files[idx], FaultAt(idx)) IN
       /\ item' = [item EXCEPT ![idx] = EndState(r)]
       /\ IF r.kind = "return"
            THEN /\ results' = Collected(results, r.value)
                 /\ idx' = idx + 1
                 /\ pc' = IF idx = N THEN "summary" ELSE "seq"
                 /\ exitStatus' = exitStatus
            ELSE /\ pc' = "exited"
                 /\ exitStatus' = 1
                 /\ UNCHANGED <<results, idx>>
  /\ UNCHANGED <<norm, inputs, audio_files, outdir, poolSize, submitted, invoked,
                 fut, collected, summary>>

\* A slip of line 164: max_workers=len(audio_files), one process per file.
CreatePoolPerFile ==
  /\ pc = "pool"
  /\ IF workers <= 0
       THEN pc' = "exited" /\ exitStatus' = 1 /\ poolSize' = poolSize
       ELSE pc' = "submit" /\ exitStatus' = exitStatus /\ poolSize' = N
  /\ UNCHANGED <<norm, inputs, audio_files, outdir, submitted, idx, item, invoked,
                 fut, collected, results, summary>>

\* Line 164: ProcessPoolExecutor(max_workers=args.workers) raises ValueError
\* for max_workers <= 0; nothing catches it and the process ends with
\* status 1.
CreatePool ==
  /\ pc = "pool"
  /\ IF workers <= 0
       THEN pc' = "exited" /\ exitStatus' = 1 /\ poolSize' = poolSize
       ELSE pc' = "submit" /\ exitStatus' = exitStatus /\ poolSize' = workers
  /\ UNCHANGED <<norm, inputs, audio_files, outdir, submitted, idx, item, invoked,
                 fut, collected, results, summary>>

\* Lines 167-178: executor.submit for the next file.
Submit ==
  /\ pc = "submit"
  /\ submitted < N
  /\ submitted' = submitted + 1
  /\ pc' = IF submitted + 1 = N THEN "collect" ELSE "submit"
  /\ UNCHANGED <<norm, inputs, audio_files, outdir, poolSize, idx, item, invoked,
                 fut, collected, results, summary, exitStatus>>

Running == {i \in 1..N : item[i] = "Running"}
PoolAlive == pc \in {"submit", "collect", "shutdown"}

\* A free pool process takes the oldest submitted item off the queue.
WorkerStart(i) ==
  /\ PoolAlive
  /\ i <= submitted
  /\ item[i] = "Pending"
  /\ \A j \in 1..(i - 1) : item[j] # "Pending"
  /\ Cardinality(Running) < poolSize
  /\ item' = [item EXCEPT ![i] = "Running"]
  /\ invoked' = [invoked EXCEPT ![i] = @ + 1]
  /\ UNCHANGED <<norm, inputs, pc, audio_files, outdir, poolSize, submitted, idx,
                 fut, collected, results, summary, exitStatus>>

\* The call of transcribe_worker in a pool process ends.  The process sends
\* back the returned value, or the exception (any BaseException), and the
\* future holds it.
WorkerFinish(i) ==
  /\ PoolAlive
  /\ item[i] = "Running"
  /\ LET r == transcribe_worker(audio_files[i], FaultAt(i)) IN
       /\ fut' = [fut EXCEPT ![i] = r]
       /\ item' = [item EXCEPT ![i] = EndState(r)]
  /\ UNCHANGED <<norm, inputs, pc, audio_files, outdir, poolSize, submitted, idx,
                 invoked, collected, results, summary, exitStatus>>

\* Lines 180-188: as_completed yields a finished future.  future.result()
\* returns the tuple, or raises the exception the future holds: an Exception
\* becomes a failed tuple, anything else leaves the loop and the with block.
\* After the last future the with block ends (every item is finished).
Collect(i) ==
  /\ pc = "collect"
  /\ i \in 1..N
  /\ i \notin collected
  /\ fut[i].kind # "none"
  /\ collected' = collected \cup {i}
  /\ LET r == fut[i]
         last == collected \cup {i} = 1..N
     IN IF r.kind = "return"
          THEN /\ results' = Collected(results, r.value)
               /\ pc' = IF last THEN "summary" ELSE "collect"
        ELSE IF IsException(r.exc.cls)
          THEN /\ results' = Collected(results, <<audio_files[i], FALSE, r.exc.msg>>)
               /\ pc' = IF last THEN "summary" ELSE "collect"
        ELSE /\ results' = results
             /\ pc' = "shutdown"
  /\ UNCHANGED <<norm, inputs, audio_files, outdir, poolSize, submitted, idx, item,
                 invoked, fut, summary, exitStatus>>

\* An exception leaves the with block: executor.__exit__ is shutdown(wait=True),
\* which returns once every submitted item has run; then the exception
\* (SystemExit(1)) ends the process.
Shutdown ==
  /\ pc = "shutdown"
  /\ \A i \in 1..N : item[i] \in Terminal
  /\ pc' = "exited"
  /\ exitStatus' = 1
  /\ UNCHANGED <<norm, inputs, audio_files, outdir, poolSize, submitted, idx, item,
                 invoked, fut, collected, results, summary>>

\* A slip of the two list comprehensions: the `if` is missing.
FilterNothing(rs, ok) == rs

\* [r for r in results if r[1]] and [r for r in results if not r[1]]
RECURSIVE Filter(_, _)
Filter(rs, ok) ==
  IF rs = <<>> THEN <<>>
  ELSE (IF Head(rs)[2] = ok THEN <<Head(rs)>> ELSE <<>>) \o Filter(Tail(rs), ok)

\* Lines 190-209: the summary; main() returns and the process ends with 0.
Summarize ==
  /\ pc = "summary"
  /\ summary' = [printed |-> TRUE,
                 total |-> Len(audio_files),
                 successful |-> Len(Filter(results, TRUE)),
                 failed |-> Filter(results, FALSE)]
  /\ pc' = "exited"
  /\ exitStatus' = 0
  /\ UNCHANGED <<norm, inputs, audio_files, outdir, poolSize, submitted, idx, item,
                 invoked, fut, collected, results>>

Next ==
  \/ Discover
  \/ MakeOutputDir
  \/ SeqStart
  \/ SeqFinish
  \/ CreatePool
  \/ Submit
  \/ \E i \in 1..N : WorkerStart(i)
  \/ \E i \in 1..N : WorkerFinish(i)
  \/ \E i \in 1..N : Collect(i)
  \/ Shutdown
  \/ Summarize

Spec == Init /\ [][Next]_vars

\* Discovery alone.
NextFind == Discover

SpecFind == InitFind /\ [][NextFind]_vars

TypeOK ==
  /\ pc \in {"start", "mkdir", "seq", "pool", "submit", "collect", "shutdown",
             "summary", "exited"}
  /\ exitStatus \in {-1, 0, 1}
  /\ (exitStatus # -1) <=> (pc = "exited")
  /\ Len(results) <= N

\* ------------------------------------------------ normalize_arabic_text
\* (arabic_transcribe.py).  A text is a sequence of characters, each named:
\*   alef U+0627, alef_hamza U+0623, alef_hamza_below U+0625,
\*   alef_madda U+0622, waw_hamza U+0624, yeh_hamza U+0626, hamza U+0621,
\*   fatha U+064E, superscript_alef U+0670, heh U+0647, thal U+0630,
\*   noon U+0646, teh U+062A, teh_marbuta U+0629, space and tab.
MaxTextLen == 3
MaxTableLen == 6

ArChars ==
  {"alef", "alef_hamza", "alef_hamza_below", "alef_madda", "waw_hamza",
   "yeh_hamza", "hamza", "fatha", "superscript_alef", "heh", "thal", "noon",
   "teh", "teh_marbuta", " ", "\t"}

\* The characters the replacement table reads.
TableChars == {"alef", "heh", "thal", "noon", " "}

\* A slip of the class of line 63: U+0670 is left out.
DiacriticsRangeOnly == {"fatha"}

\* The characters of the class [U+064B-U+065F U+0670] of line 63.
Diacritics == {"fatha", "superscript_alef"}

\* The class of line 66, the class of line 69, and \s.
AlefForms == {"alef_hamza_below", "alef_hamza", "alef_madda", "alef"}
HamzaForms == {"waw_hamza", "yeh_hamza"}
Whitespace == {" ", "\t"}

\* re.sub('[class]', '', s)
RECURSIVE RemoveClass(_, _)
RemoveClass(s, class) ==
  IF s = <<>> THEN <<>>
  ELSE (IF Head(s) \in class THEN <<>> ELSE <<Head(s)>>)
         \o RemoveClass(Tail(s), class)

\* re.sub('[class]', c, s)
SubClass(s, class, c) == [i \in DOMAIN s |-> IF s[i] \in class THEN c ELSE s[i]]

\* re.sub(r'\s+', ' ', s): every run of whitespace becomes one space.
RECURSIVE SubSpaces(_)
SubSpaces(s) ==
  IF s = <<>> THEN <<>>
  ELSE IF Head(s) \in Whitespace
    THEN IF Tail(s) # <<>> /\ Head(Tail(s)) \in Whitespace
           THEN SubSpaces(Tail(s))
           ELSE <<" ">> \o SubSpaces(Tail(s))
  ELSE <<Head(s)>> \o SubSpaces(Tail(s))

\* text.strip(): whitespace off both ends.
RECURSIVE StripLeft(_)
StripLeft(s) ==
  IF s # <<>> /\ Head(s) \in Whitespace THEN StripLeft(Tail(s)) ELSE s

RECURSIVE StripRight(_)
StripRight(s) ==
  IF s # <<>> /\ s[Len(s)] \in Whitespace
    THEN StripRight(SubSeq(s, 1, Len(s) - 1)) ELSE s

StripText(s) == StripRight(StripLeft(s))

\* str.replace(old, new): the occurrences of old found from left to right,
\* without overlap, each replaced by new.
RECURSIVE Replace(_, _, _)
Replace(s, old, new) ==
  IF Len(s) < Len(old) THEN s
  ELSE IF SubSeq(s, 1, Len(old)) = old
    THEN new \o Replace(SubSeq(s, Len(old) + 1, Len(s)), old, new)
  ELSE <<Head(s)>> \o Replace(Tail(s), old, new)

\* The replacements dict, in its insertion order (the order the loop of
\* line 85 visits it).
replacements ==
  << <<<<"alef", "heh", " ">>, <<"alef", "teh_marbuta", " ">>>>,
     <<<<" ", "heh", " ">>, <<" ", "teh_marbuta", " ">>>>,
     <<<<"heh", "thal", "heh">>, <<"heh", "thal", "alef">>>>,
     <<<<"alef", "noon", "alef">>, <<"alef_hamza", "noon", "alef">>>>,
     <<<<"alef", "noon", "teh">>, <<"alef_hamza", "noon", "teh">>>> >>

\* for old, new in replacements.items(): text = text.replace(old, new)
RECURSIVE ReplaceAll(_, _)
ReplaceAll(s, table) ==
  IF table = <<>> THEN s
  ELSE ReplaceAll(Replace(s, Head(table)[1], Head(table)[2]), Tail(table))

\* Lines 62-73: the regex stage.
RegexStage(t) ==
  StripText(SubSpaces(SubClass(SubClass(RemoveClass(t, Diacritics),
                                        AlefForms, "alef"),
                               HamzaForms, "hamza")))

normalize_arabic_text(t) ==
  IF t = <<>> THEN t ELSE ReplaceAll(RegexStage(t), replacements)

InitNorm ==
  /\ text \in SeqsUpTo(ArChars, MaxTextLen) \cup SeqsUpTo(TableChars, MaxTableLen)
  /\ once = <<>>
  /\ twice = <<>>
  /\ npc = "start"
  /\ dirExists = FALSE
  /\ listing = {}
  /\ pattern = <<>>
  /\ workers = 1
  /\ faultOf = <<>>
  /\ InitRest

\* normalize_arabic_text is called on the text.
Normalize ==
  /\ npc = "start"
  /\ once' = normalize_arabic_text(text)
  /\ npc' = "once"
  /\ UNCHANGED <<text, twice, inputs, batch>>

\* normalize_arabic_text is called on its own result.
NormalizeAgain ==
  /\ npc = "once"
  /\ twice' = normalize_arabic_text(once)
  /\ npc' = "twice"
  /\ UNCHANGED <<text, once, inputs, batch>>

NextNorm ==
  \/ Normalize
  \/ NormalizeAgain

SpecNorm == InitNorm /\ [][NextNorm]_vars

\* ---------------------------------------------------------------- claims
Range(s) == {s[i] : i \in DOMAIN s}
Occurrences(s, x) == Cardinality({i \in DOMAIN s : s[i] = x})
SeqBag(s) == [x \in Range(s) |-> Occurrences(s, x)]
ResultFiles == [k \in DOMAIN results |-> results[k][1]]

\* The results list the sequential loop (lines 149-161) builds for the
\* discovered files, from work item i on.
RECURSIVE SeqOutcomes(_)
SeqOutcomes(i) ==
  IF i > N THEN <<>>
  ELSE LET r == transcribe_worker(audio_files[i], FaultAt(i)) IN
    IF r.kind = "return" THEN <<r.value>> \o SeqOutcomes(i + 1) ELSE <<>>

\* The sequential mode leaves exactly SeqOutcomes in results.
SeqOutcomesAgree ==
  (workers = 1 /\ pc = "exited" /\ N >= 1) => results = SeqOutcomes(1)

\* C1: when a batch run over N >= 1 files ends, results holds exactly N
\* outcomes, one per work item, whatever the worker count and however the
\* operation failed.
C1_EveryItemOneOutcome ==
  (pc = "exited" /\ N >= 1 /\ workers >= 1) =>
    /\ Len(results) = N
    /\ SeqBag(ResultFiles) = SeqBag(audio_files)

\* The error a listed failure kind raises inside the operation.
ListedFaults == {"load", "decode", "write"}
ListedError(fault) ==
  CASE fault = "load" -> load_model(fault).exc
    [] fault = "decode" -> model_transcribe(fault).exc
    [] fault = "write" -> write_artifacts(fault).exc

\* C2: in sequential mode a work item whose operation met a model load
\* failure, a decode failure or an I/O failure has the failed outcome
\* (file_path, False, message of the error) in results, and the run does
\* not end before every work item has been processed.
C2_SequentialErrorIsCaught ==
  workers = 1 =>
    /\ \A i \in 1..N :
         (item[i] \in Terminal /\ FaultAt(i) \in ListedFaults) =>
           /\ i <= Len(results)
           /\ results[i] = <<audio_files[i], FALSE, ListedError(FaultAt(i)).msg>>
    /\ pc = "exited" => \A i \in 1..N : item[i] \in Terminal

\* C3: the exit status is 1 when no file was discovered and 0 otherwise,
\* however many files failed.
C3_ExitStatusIgnoresFailures ==
  (pc = "exited" /\ workers >= 1) => exitStatus = (IF N = 0 THEN 1 ELSE 0)

\* C4: in parallel mode, when the run has ended and some work item failed,
\* every other work item is in a terminal state and has its outcome in
\* results.
C4_FailureSparesSiblings ==
  (pc = "exited" /\ workers > 1) =>
    \A i \in 1..N : item[i] = "Failed" =>
      \A j \in (1..N) \ {i} :
        /\ item[j] \in Terminal
        /\ \E k \in DOMAIN results : results[k][1] = audio_files[j]

\* C5: with workers == 1 the work items run one at a time in input order on
\* the calling thread (no pool; an item has left Pending only when every
\* earlier item is terminal), and the k-th outcome is the outcome of the
\* k-th discovered file; all N are there when the summary is reached.
C5_SequentialInOrder ==
  workers = 1 =>
    /\ poolSize = 0
    /\ Cardinality(Running) <= 1
    /\ \A i \in 1..N : item[i] # "Pending" =>
         \A j \in 1..(i - 1) : item[j] \in Terminal
    /\ \A k \in DOMAIN results :
         /\ results[k][1] = audio_files[k]
         /\ results[k][2] = (item[k] = "Succeeded")
    /\ pc = "summary" => Len(results) = N

\* C5 witness: a sequential run over at least two different files reached
\* the summary, one of the files having failed.
C5_Witness ==
  /\ workers = 1
  /\ pc = "summary"
  /\ N >= 2
  /\ audio_files[1] # audio_files[2]
  /\ \E i \in 1..N : item[i] = "Failed"

\* C6: the multiset of outcomes a parallel run has collected when it ends is
\* the multiset the sequential loop collects for the same files.
C6_ParallelSameOutcomes ==
  (pc = "exited" /\ workers > 1 /\ N >= 1) =>
    SeqBag(results) = SeqBag(SeqOutcomes(1))

\* C7, first part: in parallel mode the summary step is reached only when
\* every submitted work item is terminal and collected.
C7_SummaryAfterAll ==
  (workers > 1 /\ pc = "summary") =>
    /\ submitted = N
    /\ \A i \in 1..N : item[i] \in Terminal
    /\ Len(results) = N

\* C7: in parallel mode the summary is produced only with every work item
\* terminal, and a run whose operations all terminated has produced the
\* summary when it ends.
C7_SummaryReached ==
  /\ C7_SummaryAfterAll
  /\ (workers > 1 /\ pc = "exited" /\ N >= 1) => summary.printed

\* C8: after a discovery that found nothing the run has ended with status
\* 1, the output directory was not created, no pool was built, nothing was
\* submitted and the operation was called for nothing.
C8_EmptyDiscoveryIsFatal ==
  (pc # "start" /\ audio_files = <<>>) =>
    /\ pc = "exited"
    /\ exitStatus = 1
    /\ ~outdir
    /\ poolSize = 0
    /\ submitted = 0
    /\ DOMAIN invoked = {}
    /\ results = <<>>
    /\ ~summary.printed

\* C8 witness: a run over a directory with files, none matching the
\* pattern, has ended.
C8_Witness ==
  /\ pc = "exited"
  /\ listing # {}
  /\ audio_files = <<>>
  /\ exitStatus = 1

\* C9: no path appears twice in the result of find_audio_files.
C9_NoDuplicates ==
  pc # "start" =>
    \A i, j \in DOMAIN audio_files : audio_files[i] = audio_files[j] => i = j

\* The patterns of the list, and the glob meaning of "name matches pattern".
PatternSet == {strip(q) : q \in Range(split(pattern))}
NameMatches(n, p) == fnmatch(n, p) /\ (ishidden(n) => ishidden(p))
IsAscending(s) == \A i \in 1..(Len(s) - 1) : StrLessEq(s[i], s[i + 1])

\* C10: find_audio_files returns exactly the directory entries whose name
\* matches at least one pattern, in ascending order (an empty sequence when
\* there is none).
C10_ExactlyTheMatches ==
  pc # "start" =>
    /\ Range(audio_files) =
         {n \in listing : \E p \in PatternSet : NameMatches(n, p)}
    /\ IsAscending(audio_files)

\* C10, for pattern lists without an empty pattern, "." or "..": the
\* result is exactly the matching entries, ascending.
ProperPatterns == PatternSet \cap ({<<>>} \cup DotNames) = {}
FindExactForProperPatterns == ProperPatterns => C10_ExactlyTheMatches

\* C11: a work item only moves Pending -> Running -> Succeeded or Failed,
\* a terminal state is never left, the operation is called when the item
\* goes from Pending to Running and at no other time, so at most once per
\* item and never again for a failed one.
C11_ItemStateMachine ==
  [][\A i \in DOMAIN item :
       /\ i \in DOMAIN item'
       /\ item'[i] # item[i] =>
            \/ item[i] = "Pending" /\ item'[i] = "Running"
            \/ item[i] = "Running" /\ item'[i] \in Terminal
       /\ invoked'[i] # invoked[i] =>
            /\ item[i] = "Pending" /\ item'[i] = "Running"
            /\ invoked[i] = 0 /\ invoked'[i] = 1]_vars

\* C11 witness: a run has ended with a succeeded and a failed work item,
\* each having called the operation once.
C11_Witness ==
  /\ pc = "exited"
  /\ \E i, j \in 1..N :
       /\ item[i] = "Succeeded" /\ item[j] = "Failed"
       /\ invoked[i] = 1 /\ invoked[j] = 1

\* C12: the printed summary agrees with the collected outcomes: the total is
\* the number of discovered files and of collected outcomes and is the
\* succeeded count plus the failed count; the failed list is exactly the
\* failed outcomes, in the order collected, each with its path and message.
C12_SummaryConsistent ==
  summary.printed =>
    /\ summary.total = N
    /\ summary.total = Len(results)
    /\ summary.total = summary.successful + Len(summary.failed)
    /\ summary.successful = Cardinality({k \in DOMAIN results : results[k][2]})
    /\ Len(summary.failed) = Cardinality({k \in DOMAIN results : ~results[k][2]})
    /\ \A k \in DOMAIN summary.failed : ~summary.failed[k][2]
    /\ SeqBag(summary.failed) =
         [r \in {results[k] : k \in {m \in DOMAIN results : ~results[m][2]}}
            |-> Occurrences(results, r)]

\* C12 witness: a summary was printed that counts a success and a failure.
C12_Witness ==
  /\ summary.printed
  /\ summary.successful >= 1
  /\ Len(summary.failed) >= 1

\* C13: with workers < 1 no pool is ever built, no work item leaves Pending,
\* the operation is called for no file, nothing is collected or summarised,
\* and the run ends with the error (status 1).
C13_InvalidWorkersFatal ==
  workers < 1 =>
    /\ poolSize = 0
    /\ submitted = 0
    /\ pc \in {"start", "mkdir", "pool", "exited"}
    /\ \A i \in 1..N : item[i] = "Pending" /\ invoked[i] = 0
    /\ results = <<>>
    /\ ~summary.printed
    /\ pc = "exited" => exitStatus = 1

\* C13 witness: a run over discovered files with workers < 1 has ended.
C13_Witness ==
  /\ workers < 1
  /\ N >= 1
  /\ pc = "exited"
  /\ exitStatus = 1

\* C14: in parallel mode the pool, once built, has exactly `workers`
\* processes and keeps that size; at most `workers` work items are Running;
\* collection starts only when every work item has been submitted.
C14_FixedPool ==
  /\ [](workers > 1 =>
         /\ poolSize \in {0, workers}
         /\ pc \in {"submit", "collect", "shutdown", "summary"} => poolSize = workers
         /\ Cardinality(Running) <= workers
         /\ pc \in {"collect", "shutdown", "summary"} => submitted = N)
  /\ [][poolSize # 0 => poolSize' = poolSize]_vars

\* C14 witness: every pool process is busy while a submitted work item waits.
C14_Witness ==
  /\ workers > 1
  /\ Cardinality(Running) = workers
  /\ \E i \in 1..N : i <= submitted /\ item[i] = "Pending"

\* The characters C15 speaks of.
Has(s, class) == \E i \in DOMAIN s : s[i] \in class
CleanSpaces(s) ==
  /\ s # <<>> => (s[1] \notin Whitespace /\ s[Len(s)] \notin Whitespace)
  /\ \A i \in 1..(Len(s) - 1) : ~(s[i] \in Whitespace /\ s[i + 1] \in Whitespace)
  /\ \A i \in DOMAIN s : s[i] \in Whitespace => s[i] = " "

\* C15 as stated: the normalized text has no alef with hamza or madda
\* (U+0625, U+0623, U+0622), no waw or yeh hamza, no diacritic, and no
\* leading, trailing or repeated whitespace.
C15_NoHamzaForms ==
  npc # "start" =>
    /\ ~Has(once, {"alef_hamza_below", "alef_hamza", "alef_madda"})
    /\ ~Has(once, HamzaForms)
    /\ ~Has(once, {"fatha", "superscript_alef"})
    /\ CleanSpaces(once)

\* C15 as amended: the normalized text has no U+0625, no U+0622, no waw or
\* yeh hamza, no diacritic, and no leading, trailing or repeated whitespace;
\* U+0623 occurs only where the replacement table put it back, at the head
\* of alef_hamza noon: every U+0623 is directly followed by noon.
C15_HamzaOnlyInPronouns ==
  npc # "start" =>
    /\ ~Has(once, {"alef_hamza_below", "alef_madda"})
    /\ ~Has(once, HamzaForms)
    /\ ~Has(once, {"fatha", "superscript_alef"})
    /\ CleanSpaces(once)
    /\ \A i \in DOMAIN once : once[i] = "alef_hamza" =>
         (i < Len(once) /\ once[i + 1] = "noon")

\* C15 witness: a text starting with alef-hamza-below was normalized and the
\* result starts with alef-hamza-above.
C15_Witness ==
  /\ npc = "once"
  /\ text # <<>> /\ text[1] = "alef_hamza_below"
  /\ once # <<>> /\ once[1] = "alef_hamza"

\* C16: normalizing a normalized text changes nothing.
C16_Idempotent ==
  npc = "twice" => twice = once

====
